---------------------------- MODULE Spec2Model ----------------------------
(***************************************************************************)
(* The coin-toss notebook (Bayesian_stats/Lesson 0 - Coin Toss.ipynb) as   *)
(* a state machine: its code cells run top to bottom, each cell one        *)
(* action.                                                                 *)
(*                                                                         *)
(*   cell 1  alpha, beta, y_obs, niter; pm.Beta prior, pm.Bernoulli        *)
(*           likelihood; trace = pm.sample(niter)                          *)
(*   cell 2  theta = linspace(0,1,N); post_theta = theta**a*(1-theta)**b;  *)
(*           C = sum(post_theta*(theta[1]-theta[0])); post_theta /= C      *)
(*   cell 3  plt.hist(trace[BurnIn:]); plt.plot(theta, post_theta)         *)
(*   cell 4  np.mean(trace[BurnIn:])                                       *)
(*                                                                         *)
(* Floating-point numbers are modelled as exact rationals <<p, q>> in      *)
(* lowest terms (q > 0), extended with the two IEEE values the cells can   *)
(* produce without raising: <<1, 0>> is inf, <<0, 0>> is nan (and <<-1,0>> *)
(* is -inf).  Rounding is outside the model.                               *)
(*                                                                         *)
(* The notebook hard-codes alpha = 2, beta = 3, ten tosses with seven      *)
(* heads, niter = 10000, a 1000-point grid and a 1000-draw burn-in.  The   *)
(* model reads them as inputs drawn from small sets (the hard-coded        *)
(* example among them) and scales the three sizes down.                    *)
(***************************************************************************)
EXTENDS Integers, Sequences, FiniteSets

VARIABLES
    alpha,       \* prior shape parameter alpha            (cell 1)
    beta,        \* prior shape parameter beta             (cell 1)
    y_obs,       \* observed tosses                        (cell 1)
    niter,       \* requested number of draws              (cell 1)
    npts,        \* number of grid points of np.linspace   (cell 2)
    pc,          \* the cell that runs next
    model,       \* pm.Model: exponents of theta and 1-theta in the joint density
    trace,       \* trace['theta']: the sampler's draws
    theta,       \* the grid
    C,           \* the normalising sum
    post_theta,  \* the density on the grid
    hist_data,   \* the draws handed to plt.hist
    mean_est,    \* the value of np.mean(...)
    run,         \* 1 in the first run of the notebook, 2 in a repeated run
    prev         \* what the first run's closed-form cell left, kept for comparison

vars == <<alpha, beta, y_obs, niter, npts, pc, model, trace, theta, C,
          post_theta, hist_data, mean_est, run, prev>>

inputs == <<alpha, beta, y_obs, niter, npts>>

-----------------------------------------------------------------------------
(* Bounds of the model. *)

\* Longest enumerated data sequence.
MaxN == 2
\* Largest enumerated prior shape parameter (the smallest is -1).
MaxShape == 1
\* Largest requested number of draws.
MaxIter == 4
\* Largest number of grid points.
MaxGrid == 3
\* Length of the discarded prefix: the notebook's [1000:], scaled down with niter.
BurnIn == 2

(* The notebook's own example. *)
ExampleAlpha == 2
ExampleBeta == 3
ExampleN == 10
ExampleK == 7

-----------------------------------------------------------------------------
(* Extended rational arithmetic. *)

RECURSIVE GCD(_, _)
GCD(a, b) == IF b = 0 THEN a ELSE GCD(b, a % b)

Abs(n) == IF n < 0 THEN -n ELSE n

Sign(n) == IF n < 0 THEN -1 ELSE IF n = 0 THEN 0 ELSE 1

\* p/q in lowest terms, q # 0.
Rat(p, q) ==
    LET g == GCD(Abs(p), Abs(q))
        s == Sign(q)
    IN  <<(s * p) \div g, (s * q) \div g>>

Zero == <<0, 1>>
One == <<1, 1>>
Inf == <<1, 0>>
NaN == <<0, 0>>

IsNaN(x) == x = NaN
IsInf(x) == x[2] = 0 /\ x[1] # 0
IsFinite(x) == x[2] > 0

RatAdd(x, y) ==
    LET g == GCD(x[2], y[2])
    IN  Rat(x[1] * (y[2] \div g) + y[1] * (x[2] \div g), (x[2] \div g) * y[2])

RatMul(x, y) ==
    LET g1 == GCD(Abs(x[1]), y[2])
        g2 == GCD(Abs(y[1]), x[2])
    IN  IF x[1] = 0 \/ y[1] = 0 THEN Zero
        ELSE Rat((x[1] \div g1) * (y[1] \div g2), (x[2] \div g2) * (y[2] \div g1))

ExtAdd(x, y) ==
    IF IsNaN(x) \/ IsNaN(y) THEN NaN
    ELSE IF IsInf(x) /\ IsInf(y) THEN (IF x = y THEN x ELSE NaN)
    ELSE IF IsInf(x) THEN x
    ELSE IF IsInf(y) THEN y
    ELSE RatAdd(x, y)

ExtNeg(x) == <<-x[1], x[2]>>

ExtSub(x, y) == ExtAdd(x, ExtNeg(y))

ExtMul(x, y) ==
    IF IsNaN(x) \/ IsNaN(y) THEN NaN
    ELSE IF IsInf(x) \/ IsInf(y)
         THEN (IF x[1] = 0 \/ y[1] = 0 THEN NaN
               ELSE <<Sign(x[1]) * Sign(y[1]), 0>>)
    ELSE RatMul(x, y)

\* IEEE division as numpy performs it: x/0 is inf or nan, never an exception.
ExtDiv(x, y) ==
    IF IsNaN(x) \/ IsNaN(y) THEN NaN
    ELSE IF IsInf(y) THEN (IF IsInf(x) THEN NaN ELSE Zero)
    ELSE IF y[1] = 0 THEN (IF x[1] = 0 THEN NaN ELSE <<Sign(x[1]), 0>>)
    ELSE IF IsInf(x) THEN <<Sign(x[1]) * Sign(y[1]), 0>>
    ELSE RatMul(x, Rat(y[2], y[1]))

RECURSIVE IntPow(_, _)
IntPow(b, e) == IF e = 0 THEN 1 ELSE b * IntPow(b, e - 1)

\* x ** e for a finite x and an integer e: 0.0 ** 0 is 1.0, 0.0 ** -1 is inf.
Pow(x, e) ==
    IF e = 0 THEN One
    ELSE IF e > 0 THEN Rat(IntPow(x[1], e), IntPow(x[2], e))
    ELSE IF x[1] = 0 THEN Inf
    ELSE Rat(IntPow(x[2], -e), IntPow(x[1], -e))

\* np.sum: 0.0 for an empty array.
RECURSIVE SeqSum(_)
SeqSum(s) == IF s = <<>> THEN Zero ELSE ExtAdd(Head(s), SeqSum(Tail(s)))

Leq(x, y) == x[1] * y[2] <= y[1] * x[2]

-----------------------------------------------------------------------------
(* Cell 1: the model. *)

ValidPrior == alpha > 0 /\ beta > 0

ValidData == \A i \in 1..Len(y_obs) : y_obs[i] \in {0, 1}

ValidInputs == ValidPrior /\ ValidData

\* PriorKernel with the exponents a and b in place of a-1 and b-1.
PriorKernelNoOffset(a, b) == <<a, b>>

\* The Beta(a, b) prior density is proportional to theta^(a-1) (1-theta)^(b-1).
PriorKernel(a, b) == <<a - 1, b - 1>>

\* Observe with every toss counted as a head.
ObserveAllHeads(k, y) == <<k[1] + 1, k[2]>>

\* One toss multiplies the density by theta^1(y=1) (1-theta)^1(y=0).
Observe(k, y) ==
    <<k[1] + (IF y = 1 THEN 1 ELSE 0), k[2] + (IF y = 0 THEN 1 ELSE 0)>>

RECURSIVE Likelihood(_, _)
Likelihood(k, ys) ==
    IF ys = <<>> THEN k ELSE Likelihood(Observe(k, Head(ys)), Tail(ys))

\* The joint density of the pm.Model: prior times the likelihood of y_obs.
JointKernel(a, b, ys) == Likelihood(PriorKernel(a, b), ys)

\* A density proportional to theta^(a'-1) (1-theta)^(b'-1) is Beta(a', b').
PosteriorParams(k) == <<k[1] + 1, k[2] + 1>>

\* The mean of Beta(a', b'), the notebook's p(y* = 1 | y).
PosteriorMean(p) == Rat(p[1], p[1] + p[2])

\* Support of a variable declared on the positive reals instead.
SupportPositive == {Zero, <<1, 2>>, One, <<3, 2>>}

\* theta is declared pm.Beta: its draws lie in the unit interval.
Support == {Zero, <<1, 2>>, One}

Traces(n) == [1..n -> Support]

-----------------------------------------------------------------------------
(* Cell 2: the closed form. *)

\* The grid taken from the draws trace['theta'] in place of np.linspace.
GridFromDraws(n) ==
    IF Len(trace) >= 2 THEN trace ELSE [i \in 1..n |-> Rat(i - 1, n - 1)]

\* np.linspace(0, 1, n), n >= 2.
Linspace(n) == [i \in 1..n |-> Rat(i - 1, n - 1)]

\* The exponents the cell applies to theta and 1-theta: the notebook derives
\* them as theta^7 (1-theta)^3 theta^2 (1-theta)^3 = theta^9 (1-theta)^6, the
\* counts of heads and tails plus alpha and beta.
Successes(ys) == Cardinality({i \in 1..Len(ys) : ys[i] = 1})
Failures(ys) == Cardinality({i \in 1..Len(ys) : ys[i] = 0})
ClosedFormExponents(a, b, ys) == <<Successes(ys) + a, Failures(ys) + b>>

\* (theta**a) * (1-theta)**b
Unnormalized(th, e) ==
    [i \in 1..Len(th) |-> ExtMul(Pow(th[i], e[1]), Pow(ExtSub(One, th[i]), e[2]))]

\* theta[1] - theta[0]
Step(th) == ExtSub(th[2], th[1])

\* np.sum(post_theta * (theta[1] - theta[0]))
RiemannSum(d, th) == SeqSum([i \in 1..Len(d) |-> ExtMul(d[i], Step(th))])

\* Normalize dividing by the plain sum, the grid step left out.
NormalizeNoStep(d, c) == [i \in 1..Len(d) |-> ExtDiv(d[i], SeqSum(d))]

\* post_theta / C
Normalize(d, c) == [i \in 1..Len(d) |-> ExtDiv(d[i], c)]

-----------------------------------------------------------------------------
(* Cells 3 and 4: the report. *)

\* The slice taken one draw too early.
RetainedFromBurnIn(tr) == SubSeq(tr, BurnIn, Len(tr))

\* trace['theta'][BurnIn:]
Retained(tr) == SubSeq(tr, BurnIn + 1, Len(tr))

\* np.mean: nan for an empty array (0.0/0), with a warning and no exception.
Mean(s) == ExtDiv(SeqSum(s), <<Len(s), 1>>)

-----------------------------------------------------------------------------
(* The inputs. *)

ShapeVals == (-1)..MaxShape
DataVals == {0, 1, 2}
DataSeqs == UNION {[1..n -> DataVals] : n \in 0..MaxN}
ExampleData == [i \in 1..ExampleN |-> IF i <= ExampleK THEN 1 ELSE 0]
NIterSet == 1..MaxIter
GridSet == 2..MaxGrid

Init ==
    /\ \/ /\ alpha \in ShapeVals
          /\ beta \in ShapeVals
          /\ y_obs \in DataSeqs
       \/ /\ alpha = ExampleAlpha
          /\ beta = ExampleBeta
          /\ y_obs = ExampleData
    /\ niter \in NIterSet
    /\ npts \in GridSet
    /\ pc = "model"
    /\ model = <<>>
    /\ trace = <<>>
    /\ theta = <<>>
    /\ C = <<>>
    /\ post_theta = <<>>
    /\ hist_data = <<>>
    /\ mean_est = <<>>
    /\ run = 1
    /\ prev = <<>>

-----------------------------------------------------------------------------
(* The cells. *)

\* with pm.Model(): theta = pm.Beta(...); y = pm.Bernoulli(..., observed=y_obs)
DefineModel ==
    /\ pc = "model"
    /\ model' = JointKernel(alpha, beta, y_obs)
    /\ pc' = "sample"
    /\ UNCHANGED <<inputs, trace, theta, C, post_theta, hist_data, mean_est, run, prev>>

\* Sample with a failed sampling sent back to the model definition for another try.
SampleRetrying ==
    /\ pc = "sample"
    /\ \/ /\ trace' \in Traces(niter)
          /\ pc' = "closed_form"
       \/ /\ ~ValidInputs
          /\ trace' = trace
          /\ pc' = "model"
    /\ UNCHANGED <<inputs, model, theta, C, post_theta, hist_data, mean_est, run, prev>>

\* trace = pm.sample(niter): niter draws of theta.  The notebook checks neither
\* the prior nor the data; what the library does with a density that is zero
\* everywhere depends on its version: it returns draws, or it raises.
Sample ==
    /\ pc = "sample"
    /\ \/ /\ trace' \in Traces(niter)
          /\ pc' = "closed_form"
       \/ /\ ~ValidInputs
          /\ trace' = trace
          /\ pc' = "error"
    /\ UNCHANGED <<inputs, model, theta, C, post_theta, hist_data, mean_est, run, prev>>

\* The closed-form cell as a function of the grid size and the exponents:
\* the grid, the normalising constant and the normalised density.
ClosedFormResult(n, e) ==
    LET th == Linspace(n)
        un == Unnormalized(th, e)
        c  == RiemannSum(un, th)
    IN  <<th, c, Normalize(un, c)>>

InputTriples ==
    (ShapeVals \X ShapeVals \X DataSeqs) \cup {<<ExampleAlpha, ExampleBeta, ExampleData>>}

ExponentPairs == {ClosedFormExponents(t[1], t[2], t[3]) : t \in InputTriples}

\* ClosedFormResult tabulated over the inputs, so that it is computed once
\* per input and not once per state.
ClosedFormTable == [n \in GridSet |-> [e \in ExponentPairs |-> ClosedFormResult(n, e)]]

\* Mean tabulated over the sequences of draws, as pairs <<s, Mean(s)>>.
MeanTable == {<<s, Mean(s)>> : s \in UNION {[1..n -> Support] : n \in 0..MaxIter}}

MeanOf(s) == (CHOOSE p \in MeanTable : p[1] = s)[2]

\* theta = np.linspace(0, 1, npts); post_theta = theta**a * (1-theta)**b;
\* C = np.sum(post_theta * (theta[1]-theta[0])); post_theta = post_theta / C
ClosedForm ==
    /\ pc = "closed_form"
    /\ LET r == ClosedFormTable[npts][ClosedFormExponents(alpha, beta, y_obs)]
       IN  /\ theta' = r[1]
           /\ C' = r[2]
           /\ post_theta' = r[3]
    /\ pc' = "plot"
    /\ UNCHANGED <<inputs, model, trace, hist_data, mean_est, run, prev>>

\* plt.hist(trace['theta'][BurnIn:], ...); plt.plot(theta, post_theta)
Plot ==
    /\ pc = "plot"
    /\ hist_data' = Retained(trace)
    /\ pc' = "mean"
    /\ UNCHANGED <<inputs, model, trace, theta, C, post_theta, mean_est, run, prev>>

\* np.mean(trace['theta'][BurnIn:])
ReportMean ==
    /\ pc = "mean"
    /\ mean_est' = MeanOf(Retained(trace))
    /\ pc' = "done"
    /\ UNCHANGED <<inputs, model, trace, theta, C, post_theta, hist_data, run, prev>>

Next == DefineModel \/ Sample \/ ClosedForm \/ Plot \/ ReportMean

Spec == Init /\ [][Next]_vars

\* Every cell returns (the sampler's loop runs to completion) and the notebook
\* is run to its last cell: a cell that can run eventually does.
SpecFair == Init /\ [][Next]_vars /\ WF_vars(Next)

\* The notebook run once more with the same inputs: the kernel restarts, nothing
\* persists but the inputs; prev remembers the first run's closed form and first draw.
SecondRun ==
    /\ pc = "done"
    /\ run = 1
    /\ run' = 2
    /\ prev' = <<theta, C, post_theta, trace[1]>>
    /\ pc' = "model"
    /\ model' = <<>>
    /\ trace' = <<>>
    /\ theta' = <<>>
    /\ C' = <<>>
    /\ post_theta' = <<>>
    /\ hist_data' = <<>>
    /\ mean_est' = <<>>
    /\ UNCHANGED inputs

NextTwoRuns == Next \/ SecondRun

\* The repeated run is explored from the valid inputs and, for the sampler's
\* failure, from the invalid priors without data.
InitTwoRuns == Init /\ (ValidInputs \/ y_obs = <<>>)

SpecTwoRuns == InitTwoRuns /\ [][NextTwoRuns]_vars

-----------------------------------------------------------------------------
(* Properties. *)

AfterModel == {"sample", "closed_form", "plot", "mean", "done"}
AfterSample == {"closed_form", "plot", "mean", "done"}
AfterClosedForm == {"plot", "mean", "done"}

IsExample == alpha = ExampleAlpha /\ beta = ExampleBeta /\ y_obs = ExampleData

\* C1: for a prior with alpha > 0, beta > 0 and binary data of length n with k
\* successes, the posterior of the defined model is Beta(alpha + k, beta + n - k):
\* all successes leave beta unchanged, all failures leave alpha unchanged, and
\* alpha = 1, beta = 1 with five successes of five gives Beta(6, 1).
C1_ConjugateUpdate ==
    /\ (pc \in AfterModel /\ ValidInputs) =>
          LET n == Len(y_obs)
              k == Successes(y_obs)
              p == PosteriorParams(model)
          IN  /\ p = <<alpha + k, beta + n - k>>
              /\ (k = n => p[2] = beta)
              /\ (k = 0 => p[1] = alpha)
    /\ PosteriorParams(JointKernel(1, 1, <<1, 1, 1, 1, 1>>)) = <<6, 1>>

C1_Witness ==
    /\ pc = "done"
    /\ ValidInputs
    /\ Len(y_obs) = MaxN
    /\ Successes(y_obs) = MaxN
    /\ PosteriorParams(model) = <<alpha + MaxN, beta>>

\* C2: the analytic posterior mean is alpha'/(alpha' + beta') with
\* alpha' = alpha + k and beta' = beta + n - k; for the notebook's example
\* (alpha = 2, beta = 3, seven successes, three failures) the posterior is
\* Beta(9, 6) and the mean is 9/15 = 3/5.
C2_PosteriorMean ==
    (pc \in AfterModel /\ ValidInputs) =>
        LET n == Len(y_obs)
            k == Successes(y_obs)
            m == PosteriorMean(PosteriorParams(model))
        IN  /\ m[2] > 0
            /\ m[1] * (alpha + beta + n) = (alpha + k) * m[2]
            /\ IsExample =>
                  /\ PosteriorParams(model) = <<9, 6>>
                  /\ m[1] * 15 = 9 * m[2]
                  /\ m = <<3, 5>>

C2_Witness ==
    /\ pc = "done"
    /\ IsExample
    /\ PosteriorMean(PosteriorParams(model)) = <<3, 5>>

\* C3: the closed-form cell evaluates theta^(alpha'-1) (1-theta)^(beta'-1) at
\* every grid point, alpha' = alpha + successes and beta' = beta + failures
\* (exponents 8 and 5 for the example): C is its Riemann sum and post_theta is
\* that density divided by C.
C3_DensityExponents ==
    (pc \in AfterClosedForm /\ ValidInputs /\ C # Zero) =>
        LET e  == <<alpha + Successes(y_obs) - 1, beta + Failures(y_obs) - 1>>
            un == Unnormalized(theta, e)
        IN  /\ IsExample => e = <<8, 5>>
            /\ C = RiemannSum(un, theta)
            /\ post_theta = Normalize(un, C)

\* C4: whenever the normalising sum C is a non-zero number, the normalised
\* density summed over the grid by the rule that normalised it (density times
\* grid step) is exactly 1.
C4_NormalizedSumIsOne ==
    (pc \in AfterClosedForm /\ IsFinite(C) /\ C # Zero) =>
        RiemannSum(post_theta, theta) = One

C4_Witness ==
    /\ pc = "done"
    /\ ValidInputs
    /\ npts = MaxGrid
    /\ IsFinite(C)
    /\ C # Zero
    /\ \E i \in 1..Len(post_theta) : post_theta[i] # Zero
    /\ RiemannSum(post_theta, theta) = One

C8_InvalidInputRejected ==
    ~ValidInputs =>
        /\ trace = <<>>
        /\ post_theta = <<>>
        /\ pc \notin AfterSample

\* C9: when the retained draws handed to the report are empty (niter does not
\* exceed the burn-in), the report ends in an error and produces no mean.
C9_EmptySampleIsError ==
    (ValidInputs /\ Retained(trace) = <<>> /\ pc \in {"mean", "done"}) =>
        /\ pc # "done"
        /\ mean_est = <<>>

Final == {"done", "error"}

\* The cell that follows each cell; a failed cell goes to "error".
StepInOrder ==
    /\ pc = "model" => pc' = "sample"
    /\ pc = "sample" => pc' \in {"closed_form", "error"}
    /\ pc = "closed_form" => pc' \in {"plot", "error"}
    /\ pc = "plot" => pc' \in {"mean", "error"}
    /\ pc = "mean" => pc' \in {"done", "error"}
    /\ pc \notin Final

\* Once the sampler has returned, its output is left as it is.
TraceKept == pc \in AfterSample => UNCHANGED trace

\* C11: every run executes model definition, sampling, closed-form evaluation
\* and reporting once each in that order: every step moves to the next cell or
\* to the error state, nothing moves after "done" or "error", all niter draws
\* exist and stay fixed from the moment the closed-form cell may start, and
\* every run eventually is in "done" or "error".
C11_LinearRun ==
    /\ [][StepInOrder]_vars
    /\ [][TraceKept]_vars
    /\ [](pc \in AfterSample => Len(trace) = niter)
    /\ [](pc = "done" => mean_est # <<>>)
    /\ <>(pc \in Final)

C11_Witness ==
    /\ pc = "done"
    /\ ValidInputs
    /\ Len(trace) = MaxIter
    /\ theta # <<>>
    /\ post_theta # <<>>
    /\ mean_est # <<>>

\* The reporting cells do not write the sampler's output.
ReportKeepsTrace == pc \in {"plot", "mean"} => UNCHANGED trace

\* The histogram holds len draws, the draws of the trace after the first
\* BurnIn in their order, and the mean is the mean of those same draws.
RetainedIs(len) ==
    /\ pc \in {"mean", "done"} =>
           /\ Len(trace) = niter
           /\ Len(hist_data) = len
           /\ \A i \in 1..Len(hist_data) : hist_data[i] = trace[BurnIn + i]
    /\ pc = "done" => mean_est = Mean(hist_data)

RetainedLength == IF niter > BurnIn THEN niter - BurnIn ELSE 0

=============================================================================
